---------------------------- MODULE Spec2Model ----------------------------
(***************************************************************************)
(* Model of the color-analyzer API: the color conversion utilities of      *)
(* src/src/utils/colorConversion.ts and the readings routes of             *)
(* src/src/routes/readings.ts over the color_readings table.               *)
(*                                                                         *)
(* Number representation.  TLC has integers only, so                       *)
(*   - a numeric input (an RGB channel of a request or of a call) is an    *)
(*     integer count of 1/Den units (r = 255 is the integer 255 * Den);    *)
(*   - a value the code rounds with Math.round(x * 100) / 100 is the       *)
(*     integer Math.round(x * 100), i.e. the value in hundredths;          *)
(*   - an intermediate real of the XYZ/LAB pipeline is a fixed-point       *)
(*     integer with nine decimals (One stands for 1.0).                    *)
(* Arithmetic is that of the reals: HSL, HSV, hex and Delta E are exact,   *)
(* the XYZ/LAB pipeline is exact to the ninth decimal.  The representation *)
(* error of IEEE-754 doubles is not modelled.                              *)
(***************************************************************************)
EXTENDS Integers, Sequences, FiniteSets, TLC

VARIABLES
    readings,   \* the rows of table color_readings
    nextId,     \* the SERIAL sequence behind color_readings.id
    now,        \* the database clock read by DEFAULT NOW()
    req,        \* per request handler: the POST /api/readings in flight
    last,       \* the last response sent by the readings router
    call,       \* the arguments of a direct call of a conversion function
    ret,        \* the values such a call returned
    pool,       \* connection.ts: the pg Pool exists (FALSE is null)
    isConnected,\* connection.ts: the flag of the same name
    boot        \* the server start and its call of ensureConnection

vars == <<readings, nextId, now, req, last, call, ret, pool, isConnected, boot>>

(***************************************************************************)
(* Bounds of the model.                                                    *)
(***************************************************************************)
\* numeric inputs are multiples of 1/Den
Den == 2
\* integer channel values within ChanEdge of 0 and of 255 are tried
ChanEdge == 5
\* channel values k * ChanStride are tried as well
ChanStride == 16
\* rgbToHex is tried on values within HexEdge of 0 and of 255 and on values
\* reaching OutOfRange below 0 and above 255
HexEdge == 1
OutOfRange == 2
\* LAB components within LabNear hundredths of the anchor values are tried
LabNear == 1

\* 1.0 in the fixed-point representation of the XYZ/LAB pipeline
One == 10^9

\* the one value standing for the non-finite results of a division by zero
\* (NaN, Infinity); it lies outside the range of every finite result
NaN == 0 - 2 * One

Max2(a, b) == IF a >= b THEN a ELSE b
Min2(a, b) == IF a <= b THEN a ELSE b
Max3(a, b, c) == Max2(a, Max2(b, c))
Min3(a, b, c) == Min2(a, Min2(b, c))
Abs(a) == IF a < 0 THEN 0 - a ELSE a

\* Math.round that rounds a half away from zero (den > 0)
JsRound_HalfAwayFromZero(num, den) ==
    IF num >= 0 THEN (2 * num + den) \div (2 * den)
    ELSE 0 - ((den - 2 * num) \div (2 * den))

\* Math.round(num / den) for den > 0: the nearest integer, a tie going up
JsRound(num, den) == (2 * num + den) \div (2 * den)

\* Math.round(num / den) as the code computes it when den may be 0:
\* the quotient is then NaN or an infinity, and so is the rounded value
RoundRatio(num, den) == IF den = 0 THEN NaN ELSE JsRound(num, den)

(***************************************************************************)
(* rgbToHex.  A string is a sequence of one-character strings.             *)
(***************************************************************************)
HexDigits == <<"0", "1", "2", "3", "4", "5", "6", "7",
               "8", "9", "a", "b", "c", "d", "e", "f">>

\* Number.prototype.toString(16) of a non-negative integer
RECURSIVE toString16(_)
toString16(n) ==
    IF n < 16 THEN <<HexDigits[n + 1]>>
    ELSE toString16(n \div 16) \o <<HexDigits[(n % 16) + 1]>>

\* String.prototype.toUpperCase on the characters that can occur
UpperChar(c) ==
    CASE c = "a" -> "A" [] c = "b" -> "B" [] c = "c" -> "C"
      [] c = "d" -> "D" [] c = "e" -> "E" [] c = "f" -> "F"
      [] OTHER -> c

toUpperCase(s) == [i \in 1..Len(s) |-> UpperChar(s[i])]

\* toHex without the zero padding of line 31
toHex_NoPad(n) ==
    IF n = NaN THEN <<"N", "a", "N">>
    ELSE toString16(Max2(0, Min2(255, JsRound(n, Den))))

\* Math.round, Math.min and Math.max of NaN are NaN, and NaN.toString(16)
\* is "NaN"
toHex(n) ==
    LET hex == IF n = NaN THEN <<"N", "a", "N">>
               ELSE toString16(Max2(0, Min2(255, JsRound(n, Den))))
    IN  IF Len(hex) = 1 THEN <<"0">> \o hex ELSE hex

rgbToHex(r, g, b) == toUpperCase(<<"#">> \o toHex(r) \o toHex(g) \o toHex(b))

(***************************************************************************)
(* rgbToHsl and rgbToHsv.  With n = r / 255 etc. the code's quotients are  *)
(* quotients of integers: the common factor 1 / (255 * Den) cancels in     *)
(* d / (max + min), d / max and (g - b) / d, and max + min > 1 (l > 0.5)   *)
(* reads mx + mn > 255 * Den.                                              *)
(***************************************************************************)
Full == 255 * Den

\* rgbToHsl with the guard max !== min of line 48 dropped
rgbToHsl_NoAchromaticGuard(r, g, b) ==
    LET mx == Max3(r, g, b)
        mn == Min3(r, g, b)
        d  == mx - mn
        hn == IF mx = r THEN (g - b) + (IF g < b THEN 6 * d ELSE 0)
              ELSE IF mx = g THEN (b - r) + 2 * d
              ELSE (r - g) + 4 * d
    IN  [h |-> RoundRatio(6000 * hn, d),
         s |-> IF mx + mn > Full THEN RoundRatio(10000 * d, 2 * Full - mx - mn)
                                 ELSE RoundRatio(10000 * d, mx + mn),
         l |-> JsRound(10000 * (mx + mn), 2 * Full)]

\* rgbToHsl with the red-max wraparound (g < b ? 6 : 0) of line 54 dropped
rgbToHsl_NoWrap(r, g, b) ==
    LET mx == Max3(r, g, b)
        mn == Min3(r, g, b)
        d  == mx - mn
        hn == IF mx = mn THEN 0
              ELSE IF mx = r THEN g - b
              ELSE IF mx = g THEN (b - r) + 2 * d
              ELSE (r - g) + 4 * d
    IN  [h |-> IF mx = mn THEN 0 ELSE RoundRatio(6000 * hn, d),
         s |-> IF mx = mn THEN 0
               ELSE IF mx + mn > Full THEN RoundRatio(10000 * d, 2 * Full - mx - mn)
               ELSE RoundRatio(10000 * d, mx + mn),
         l |-> JsRound(10000 * (mx + mn), 2 * Full)]

rgbToHsl(r, g, b) ==
    LET mx == Max3(r, g, b)
        mn == Min3(r, g, b)
        d  == mx - mn
        \* h * 6 * d, by the switch on max: case r, then case g, then case b
        hn == IF mx = mn THEN 0
              ELSE IF mx = r THEN (g - b) + (IF g < b THEN 6 * d ELSE 0)
              ELSE IF mx = g THEN (b - r) + 2 * d
              ELSE (r - g) + 4 * d
    IN  [h |-> IF mx = mn THEN 0 ELSE RoundRatio(6000 * hn, d),
         s |-> IF mx = mn THEN 0
               ELSE IF mx + mn > Full THEN RoundRatio(10000 * d, 2 * Full - mx - mn)
               ELSE RoundRatio(10000 * d, mx + mn),
         l |-> JsRound(10000 * (mx + mn), 2 * Full)]

\* rgbToHsv with the guard max === 0 of line 85 dropped
rgbToHsv_NoBlackGuard(r, g, b) ==
    LET mx == Max3(r, g, b)
        mn == Min3(r, g, b)
        d  == mx - mn
        hn == IF mx = mn THEN 0
              ELSE IF mx = r THEN (g - b) + (IF g < b THEN 6 * d ELSE 0)
              ELSE IF mx = g THEN (b - r) + 2 * d
              ELSE (r - g) + 4 * d
    IN  [h |-> IF mx = mn THEN 0 ELSE RoundRatio(6000 * hn, d),
         s |-> RoundRatio(10000 * d, mx),
         v |-> JsRound(10000 * mx, Full)]

\* rgbToHsv with the blue-max offset 4 of line 96 mistaken for 2
rgbToHsv_BlueSector(r, g, b) ==
    LET mx == Max3(r, g, b)
        mn == Min3(r, g, b)
        d  == mx - mn
        hn == IF mx = mn THEN 0
              ELSE IF mx = r THEN (g - b) + (IF g < b THEN 6 * d ELSE 0)
              ELSE IF mx = g THEN (b - r) + 2 * d
              ELSE (r - g) + 2 * d
    IN  [h |-> IF mx = mn THEN 0 ELSE RoundRatio(6000 * hn, d),
         s |-> IF mx = 0 THEN 0 ELSE RoundRatio(10000 * d, mx),
         v |-> JsRound(10000 * mx, Full)]

rgbToHsv(r, g, b) ==
    LET mx == Max3(r, g, b)
        mn == Min3(r, g, b)
        d  == mx - mn
        hn == IF mx = mn THEN 0
              ELSE IF mx = r THEN (g - b) + (IF g < b THEN 6 * d ELSE 0)
              ELSE IF mx = g THEN (b - r) + 2 * d
              ELSE (r - g) + 4 * d
    IN  [h |-> IF mx = mn THEN 0 ELSE RoundRatio(6000 * hn, d),
         s |-> IF mx = 0 THEN 0 ELSE RoundRatio(10000 * d, mx),
         v |-> JsRound(10000 * mx, Full)]

(***************************************************************************)
(* Fixed-point arithmetic of the XYZ/LAB pipeline.  Every intermediate     *)
(* value stays below 2^31, the largest integer of TLC.                     *)
(***************************************************************************)
\* the product a * b of two fixed-point values, to the nearest unit; the
\* factors are split in three limbs of three decimals
FixMul(a, b) ==
    LET a0 == a % 1000
        a1 == (a \div 1000) % 1000
        a2 == a \div 1000000
        b0 == b % 1000
        b1 == (b \div 1000) % 1000
        b2 == b \div 1000000
        t0 == a0 * b0
        t1 == a1 * b0 + a0 * b1
        t2 == a2 * b0 + a1 * b1 + a0 * b2
        t3 == a2 * b1 + a1 * b2
        t4 == a2 * b2
    IN  t3 + 1000 * t4 + ((((t0 \div 1000) + t1) \div 1000) + t2 + 500) \div 1000

\* a * 10^k / d to the nearest integer, by long division (0 < d < 10^8)
RECURSIVE DivPow10(_, _, _)
DivPow10(a, k, d) ==
    IF k = 0 THEN JsRound(a, d)
    ELSE (a \div d) * 10^k + DivPow10((a % d) * 10, k - 1, d)

\* a * n / d to the nearest integer (d * n < 2^31)
MulRatio(a, n, d) == (a \div d) * n + JsRound((a % d) * n, d)

\* the decimal literal n / 10^k of the source as a fixed-point value
Dec(n, k) == n * (One \div 10^k)

\* w to the power n, n >= 1
RECURSIVE FixPow(_, _)
FixPow(w, n) == IF n = 1 THEN w ELSE FixMul(FixPow(w, n - 1), w)

\* the n-th root of z, 0 <= z < 1.07: the largest fixed-point w whose n-th
\* power does not exceed z, found one decimal digit after the other
RECURSIVE RootDigits(_, _, _, _)
RootDigits(z, n, w, step) ==
    IF step = 0 THEN w
    ELSE LET fits(k) == /\ w + k * step < 2^30
                        /\ FixPow(w + k * step, n) <= z
             digit == CHOOSE k \in 0..9 : fits(k) /\ (k = 9 \/ ~fits(k + 1))
         IN  RootDigits(z, n, w + digit * step, step \div 10)

Root(z, n) == RootDigits(z, n, 0, One)

(***************************************************************************)
(* rgbToXyz, xyzToLab, rgbToLab.  XYZ is kept on the scale 0..1: the       *)
(* factor 100 of "Scale to 0-100" is divided out again by the reference    *)
(* white, so x / refX is X / 0.95047 here.                                 *)
(***************************************************************************)
\* the sRGB inverse gamma of one channel v (in 1/Den units): v / 255 > 0.04045
\* ? Math.pow((v / 255 + 0.055) / 1.055, 2.4) : v / 255 / 12.92
srgbToLinear(v) ==
    IF v * 100000 > 4045 * Full
    THEN \* (v / Full + 0.055) / 1.055 = (200 v + 11 Full) / (211 Full)
         LET base == DivPow10(200 * v + 11 * Full, 9, 211 * Full)
             sq   == FixMul(base, base)
         IN  \* base^2.4 = base^2 * (base^2)^(1/5)
             FixMul(sq, Root(sq, 5))
    ELSE \* v / Full / 12.92 = 25 v / (323 Full)
         DivPow10(25 * v, 9, 323 * Full)

rgbToXyz(r, g, b) ==
    LET rn == srgbToLinear(r)
        gn == srgbToLinear(g)
        bn == srgbToLinear(b)
    IN  [x |-> FixMul(rn, Dec(4124564, 7)) + FixMul(gn, Dec(3575761, 7))
                 + FixMul(bn, Dec(1804375, 7)),
         y |-> FixMul(rn, Dec(2126729, 7)) + FixMul(gn, Dec(7151522, 7))
                 + FixMul(bn, Dec(721750, 7)),
         z |-> FixMul(rn, Dec(193339, 7)) + FixMul(gn, Dec(1191920, 7))
                 + FixMul(bn, Dec(9503041, 7))]

\* t > epsilon ? Math.pow(t, 1/3) : (kappa * t + 16) / 116
labF(t) ==
    IF t > Dec(8856, 6) THEN Root(t, 3)
    ELSE \* 903.3 * t / 116 + 16 / 116
         MulRatio(t, 9033, 1160) + DivPow10(16, 9, 116)

\* xyzToLab with the reference values refX and refZ taken for each other
xyzToLab_SwappedRefs(xyz) ==
    LET x == labF(DivPow10(xyz.x, 5, 108883))
        y == labF(xyz.y)
        z == labF(DivPow10(xyz.z, 5, 95047))
    IN  [l |-> MulRatio(y, 29, 2500000) - 1600,
         a |-> JsRound(x - y, 20000),
         b |-> JsRound(y - z, 50000)]

xyzToLab(xyz) ==
    LET x == labF(DivPow10(xyz.x, 5, 95047))     \* xyz.x / 0.95047
        y == labF(xyz.y)                         \* xyz.y / 1.0
        z == labF(DivPow10(xyz.z, 5, 108883))    \* xyz.z / 1.08883
    IN  \* Math.round((116 y - 16) * 100), 11600 / One = 29 / 2500000
        [l |-> MulRatio(y, 29, 2500000) - 1600,
         \* Math.round(500 (x - y) * 100), 50000 / One = 1 / 20000
         a |-> JsRound(x - y, 20000),
         \* Math.round(200 (y - z) * 100), 20000 / One = 1 / 50000
         b |-> JsRound(y - z, 50000)]

rgbToLab(r, g, b) == xyzToLab(rgbToXyz(r, g, b))

(***************************************************************************)
(* deltaE76.  With LAB in hundredths, Math.round(Math.sqrt(s) * 100) is    *)
(* the integer nearest to the square root of the sum of the squared        *)
(* differences in hundredths; that root is never half an integer.          *)
(***************************************************************************)
\* the integer part of the square root
RECURSIVE ISqrt(_)
ISqrt(n) ==
    IF n < 2 THEN n
    ELSE LET s == 2 * ISqrt(n \div 4)
         IN  IF (s + 1) * (s + 1) <= n THEN s + 1 ELSE s

\* Math.round(Math.sqrt(n)) for an integer n >= 0
RoundSqrt(n) ==
    LET s == ISqrt(n)
    IN  IF n > s * s + s THEN s + 1 ELSE s

\* deltaE76 with the b difference taken against the other triple's a
deltaE76_MixedAxes(lab1, lab2) ==
    LET deltaL == lab1.l - lab2.l
        deltaA == lab1.a - lab2.a
        deltaB == lab1.b - lab2.a
    IN  RoundSqrt(deltaL * deltaL + deltaA * deltaA + deltaB * deltaB)

\* deltaE76 rounded to whole units: Math.round(Math.sqrt(...)) * 100 / 100
deltaE76_WholeUnits(lab1, lab2) ==
    LET deltaL == lab1.l - lab2.l
        deltaA == lab1.a - lab2.a
        deltaB == lab1.b - lab2.b
    IN  100 * JsRound(RoundSqrt(deltaL * deltaL + deltaA * deltaA
                                  + deltaB * deltaB), 100)

deltaE76(lab1, lab2) ==
    LET deltaL == lab1.l - lab2.l
        deltaA == lab1.a - lab2.a
        deltaB == lab1.b - lab2.b
    IN  RoundSqrt(deltaL * deltaL + deltaA * deltaA + deltaB * deltaB)

getAllColorValues(r, g, b) ==
    LET hex == rgbToHex(r, g, b)
        hsl == rgbToHsl(r, g, b)
        hsv == rgbToHsv(r, g, b)
        lab == rgbToLab(r, g, b)
    IN  [hex |-> hex, hue |-> hsl.h, saturation_l |-> hsl.s, lightness |-> hsl.l,
         saturation_v |-> hsv.s, value |-> hsv.v,
         lab_l |-> lab.l, lab_a |-> lab.a, lab_b |-> lab.b]

(***************************************************************************)
(* getDeltaEInterpretation.  Its argument is in thousandths, so that       *)
(* 2.999 and the threshold 3.5 are integers.                               *)
(***************************************************************************)
\* getDeltaEInterpretation with <= for < in every comparison
getDeltaEInterpretation_Inclusive(deltaE) ==
    IF deltaE <= 1000 THEN "Not perceptible by human eyes"
    ELSE IF deltaE <= 2000 THEN "Perceptible through close observation"
    ELSE IF deltaE <= 3500 THEN "Perceptible at a glance"
    ELSE IF deltaE <= 5000 THEN "Pair colors more similar than different"
    ELSE IF deltaE <= 10000 THEN "Pair colors more different than similar"
    ELSE "Completely different colors"

getDeltaEInterpretation(deltaE) ==
    IF deltaE < 1000 THEN "Not perceptible by human eyes"
    ELSE IF deltaE < 2000 THEN "Perceptible through close observation"
    ELSE IF deltaE < 3500 THEN "Perceptible at a glance"
    ELSE IF deltaE < 5000 THEN "Pair colors more similar than different"
    ELSE IF deltaE < 10000 THEN "Pair colors more different than similar"
    ELSE "Completely different colors"

(***************************************************************************)
(* The readings router over table color_readings.                          *)
(*                                                                         *)
(* A field of a JSON body is <<>> when it is undefined and <<v>> when it   *)
(* is the number v (in 1/Den units); a nullable column is <<>> when NULL.  *)
(* device_id "" stands for a missing or empty device_id, both falsy.  The  *)
(* columns notes and sample_name are copied through and are left out.      *)
(***************************************************************************)
\* request handlers that may run concurrently
NProcs == 2
\* arguments of getDeltaEInterpretation lie within InterpNear thousandths of
\* a threshold
InterpNear == 3
\* the SERIAL sequence is not advanced beyond MaxId
MaxId == 3
\* the database clock is not advanced beyond MaxClock
MaxClock == 1

Procs == 1..NProcs
DeviceIds == {"a", "b"}

\* request bodies the checks of lines 14 and 19 let through and the table
\* accepts
GoodBodies == [device_id : DeviceIds, r : {<<0>>, <<Full>>},
               g : {<<0>>}, b : {<<Full>>}]

\* a field that is missing, below 0, above 255, or not an integer
BadValues == {<<>>, <<0 - Den>>, <<Full + Den>>, <<1>>}

\* the good body whose fields are spoilt one at a time
BaseBody == [device_id |-> "a", r |-> <<0>>, g |-> <<0>>, b |-> <<Full>>]

\* the bodies tried: a good body, or the base body with one field spoilt
Bodies ==
    GoodBodies
      \cup {[BaseBody EXCEPT !.device_id = ""]}
      \cup {[BaseBody EXCEPT !.r = v] : v \in BadValues}
      \cup {[BaseBody EXCEPT !.g = v] : v \in BadValues}
      \cup {[BaseBody EXCEPT !.b = v] : v \in BadValues}

NoBody == [device_id |-> "", r |-> <<>>, g |-> <<>>, b |-> <<>>]

\* line 14: !device_id || r === undefined || g === undefined || b === undefined
MissingFields(body) ==
    body.device_id = "" \/ body.r = <<>> \/ body.g = <<>> \/ body.b = <<>>

\* line 19: r < 0 || r > 255 || g < 0 || g > 255 || b < 0 || b > 255
OutsideRange(body) ==
    \/ body.r[1] < 0 \/ body.r[1] > Full
    \/ body.g[1] < 0 \/ body.g[1] > Full
    \/ body.b[1] < 0 \/ body.b[1] > Full

\* the request passes both checks and goes on to line 24
PassesValidation(body) == ~MissingFields(body) /\ ~OutsideRange(body)

\* the RGB triples that reach getAllColorValues and rgbToLab from the router
CoreInputs ==
    {<<x.r[1], x.g[1], x.b[1]>> : x \in {y \in Bodies : PassesValidation(y)}}

\* lines 27 and 28, evaluated once per triple
ColorValuesOf == [c \in CoreInputs |-> getAllColorValues(c[1], c[2], c[3])]
CurrentLabOf == [c \in CoreInputs |-> rgbToLab(c[1], c[2], c[3])]

\* columns r, g, b are INTEGER NOT NULL CHECK (x >= 0 AND x <= 255): the
\* INSERT of any other value fails
ColumnAccepts(v) == v % Den = 0 /\ v >= 0 /\ v <= Full

\* SELECT lab_l, lab_a, lab_b ... WHERE device_id = $1 ORDER BY timestamp ASC
SelectPrevious_Oldest(rows, device_id) ==
    {x \in rows : /\ x.device_id = device_id
                  /\ \A y \in rows : y.device_id = device_id
                                        => y.timestamp >= x.timestamp}

\* SELECT lab_l, lab_a, lab_b FROM color_readings WHERE device_id = $1
\* ORDER BY timestamp DESC LIMIT 1: the rows the query may return (any one of
\* those that share the greatest timestamp), none when the set is empty
SelectPrevious(rows, device_id) ==
    {x \in rows : /\ x.device_id = device_id
                  /\ \A y \in rows : y.device_id = device_id
                                        => y.timestamp <= x.timestamp}

LabOfRow(x) == [l |-> x.lab_l, a |-> x.lab_a, b |-> x.lab_b]

\* getPool(), connection.ts lines 7 to 32, with DATABASE_URL set: the pool
\* is created on the first call
getPool == pool' = TRUE

\* the server before start(): no call of ensureConnection yet.  env is
\* whether DATABASE_URL is set, pc the position of start() and of the
\* ensureConnection it awaits, retries and attempt the variables of that
\* name, entry the value of isConnected on entry, attempts the number of
\* attempts made and failed the number of them that failed, succeeded whether
\* one succeeded, result the value returned, migrated whether runMigrations
\* was called, calls the number of later calls that have ended
NotStarted ==
    [env |-> TRUE, pc |-> "init", caller |-> "none", retries |-> 0,
     attempt |-> 0, entry |-> FALSE, attempts |-> 0, failed |-> 0,
     succeeded |-> FALSE, result |-> <<>>, migrated |-> FALSE, calls |-> 0]

Idle == [pc |-> "idle", body |-> NoBody, prevResult |-> <<>>, delta_e |-> <<>>]

NoResponse == [route |-> "none", status |-> 0, body |-> NoBody,
               called |-> FALSE, id |-> 0]

InFlight == {p \in Procs : req[p].pc = "insert"}

\* POST /api/readings answered 400 at line 15 or line 20
PostReject(p) ==
    /\ req[p].pc = "idle"
    /\ \E body \in Bodies :
          /\ ~PassesValidation(body)
          /\ last' = [route |-> "POST", status |-> 400, body |-> body,
                      called |-> FALSE, id |-> 0]
    /\ UNCHANGED <<readings, nextId, now, req, call, ret, pool, isConnected, boot>>

\* POST /api/readings, lines 11 to 46: the checks, the conversions, the
\* SELECT of the previous reading and the Delta E against it
PostRead(p) ==
    /\ req[p].pc = "idle"
    /\ nextId + Cardinality(InFlight) <= MaxId
    /\ \E body \in Bodies :
          /\ PassesValidation(body)
          /\ LET currentLab == CurrentLabOf[<<body.r[1], body.g[1], body.b[1]>>]
                 found == SelectPrevious(readings, body.device_id)
             IN  IF found = {}
                 THEN req' = [req EXCEPT ![p] =
                                 [pc |-> "insert", body |-> body,
                                  prevResult |-> <<>>, delta_e |-> <<>>]]
                 ELSE \E x \in found :
                         req' = [req EXCEPT ![p] =
                                 [pc |-> "insert", body |-> body,
                                  prevResult |-> <<LabOfRow(x)>>,
                                  delta_e |-> <<deltaE76(currentLab, LabOfRow(x))>>]]
    /\ getPool
    /\ UNCHANGED <<readings, nextId, now, last, call, ret, isConnected, boot>>

\* the row the INSERT of lines 49 to 69 adds
\* the INSERT with the parameters $8 and $10, lightness and value, taken for
\* each other
NewRow_SwappedColumns(body, delta_e) ==
    LET cv == ColorValuesOf[<<body.r[1], body.g[1], body.b[1]>>]
    IN  [id |-> nextId, device_id |-> body.device_id, timestamp |-> now,
         r |-> body.r[1], g |-> body.g[1], b |-> body.b[1],
         hex |-> cv.hex, hue |-> cv.hue, saturation_l |-> cv.saturation_l,
         lightness |-> cv.value, saturation_v |-> cv.saturation_v,
         value |-> cv.lightness, lab_l |-> cv.lab_l, lab_a |-> cv.lab_a,
         lab_b |-> cv.lab_b, delta_e |-> delta_e]

NewRow(body, delta_e) ==
    LET cv == ColorValuesOf[<<body.r[1], body.g[1], body.b[1]>>]
    IN  [id |-> nextId, device_id |-> body.device_id, timestamp |-> now,
         r |-> body.r[1], g |-> body.g[1], b |-> body.b[1],
         hex |-> cv.hex, hue |-> cv.hue, saturation_l |-> cv.saturation_l,
         lightness |-> cv.lightness, saturation_v |-> cv.saturation_v,
         value |-> cv.value, lab_l |-> cv.lab_l, lab_a |-> cv.lab_a,
         lab_b |-> cv.lab_b, delta_e |-> delta_e]

\* POST /api/readings, lines 48 to 75: the INSERT and the response, 201 with
\* the row or 500 when the table rejects it
PostInsert(p) ==
    /\ req[p].pc = "insert"
    /\ LET body == req[p].body
       IN  IF ColumnAccepts(body.r[1]) /\ ColumnAccepts(body.g[1])
                /\ ColumnAccepts(body.b[1])
           THEN /\ readings' = readings \cup {NewRow(body, req[p].delta_e)}
                /\ nextId' = nextId + 1
                /\ last' = [route |-> "POST", status |-> 201, body |-> body,
                            called |-> TRUE, id |-> nextId]
           ELSE /\ last' = [route |-> "POST", status |-> 500, body |-> body,
                            called |-> TRUE, id |-> 0]
                /\ UNCHANGED <<readings, nextId>>
    /\ req' = [req EXCEPT ![p] = Idle]
    /\ UNCHANGED <<now, call, ret, pool, isConnected, boot>>

\* DELETE /api/readings/:id
DeleteReading(id) ==
    /\ IF \E x \in readings : x.id = id
       THEN /\ readings' = {x \in readings : x.id # id}
            /\ last' = [route |-> "DELETE", status |-> 200, body |-> NoBody,
                        called |-> FALSE, id |-> id]
       ELSE /\ last' = [route |-> "DELETE", status |-> 404, body |-> NoBody,
                        called |-> FALSE, id |-> id]
            /\ UNCHANGED readings
    /\ getPool
    /\ UNCHANGED <<nextId, now, req, call, ret, isConnected, boot>>

\* GET /api/readings?device_id=..., lines 79 to 102, with the default limit
\* and offset: the readings of the device, or 400 without a device_id
ListReadings(device_id) ==
    /\ IF device_id = ""
       THEN last' = [route |-> "LIST", status |-> 400, body |-> NoBody,
                     called |-> FALSE, id |-> 0, rows |-> {}]
       ELSE last' = [route |-> "LIST", status |-> 200, body |-> NoBody,
                     called |-> FALSE, id |-> 0,
                     rows |-> {x \in readings : x.device_id = device_id}]
    /\ IF device_id = "" THEN UNCHANGED pool ELSE getPool
    /\ UNCHANGED <<readings, nextId, now, req, call, ret, isConnected, boot>>

\* GET /api/readings/:id, lines 105 to 125
GetReading(id) ==
    /\ LET rows == {x \in readings : x.id = id}
       IN  last' = [route |-> "GET", status |-> IF rows = {} THEN 404 ELSE 200,
                    body |-> NoBody, called |-> FALSE, id |-> id, rows |-> rows]
    /\ getPool
    /\ UNCHANGED <<readings, nextId, now, req, call, ret, isConnected, boot>>

\* GET /api/readings/compare/:id1/:id2, lines 151 to 184: the rows whose id
\* is IN (id1, id2); 404 unless there are two of them
CompareReadings(id1, id2) ==
    /\ LET rows == {x \in readings : x.id \in {id1, id2}}
       IN  IF Cardinality(rows) # 2
           THEN last' = [route |-> "COMPARE", status |-> 404, body |-> NoBody,
                         called |-> FALSE, id |-> id1, id2 |-> id2]
           ELSE LET reading1 == CHOOSE x \in rows : x.id = id1
                    reading2 == CHOOSE x \in rows : x.id = id2
                    delta_e  == deltaE76(LabOfRow(reading1), LabOfRow(reading2))
                IN  last' = [route |-> "COMPARE", status |-> 200,
                             body |-> NoBody, called |-> FALSE,
                             id |-> id1, id2 |-> id2,
                             reading1 |-> reading1, reading2 |-> reading2,
                             delta_e |-> delta_e,
                             \* hundredths to thousandths
                             interpretation |->
                                 getDeltaEInterpretation(10 * delta_e)]
    /\ getPool
    /\ UNCHANGED <<readings, nextId, now, req, call, ret, isConnected, boot>>

\* time passes between two statements
Tick ==
    /\ now < MaxClock
    /\ now' = now + 1
    /\ UNCHANGED <<readings, nextId, req, last, call, ret, pool, isConnected, boot>>

RouterInit ==
    /\ readings = {}
    /\ nextId = 1
    /\ now = 0
    /\ req = [p \in Procs |-> Idle]
    /\ last = NoResponse
    /\ pool = FALSE
    /\ isConnected = FALSE
    /\ boot = NotStarted

Init == RouterInit /\ call = <<>> /\ ret = <<>>

Next ==
    \/ \E p \in Procs : PostReject(p)
    \/ \E p \in Procs : PostRead(p)
    \/ \E p \in Procs : PostInsert(p)
    \/ \E id \in 1..MaxId : DeleteReading(id)
    \/ \E device_id \in DeviceIds \cup {""} : ListReadings(device_id)
    \/ \E id \in 1..MaxId : GetReading(id)
    \/ \E id1 \in 1..MaxId : \E id2 \in 1..MaxId : CompareReadings(id1, id2)
    \/ Tick

Spec == Init /\ [][Next]_vars

(***************************************************************************)
(* Direct calls of the conversion functions: the arguments are drawn when  *)
(* the behaviour starts, each call stores what the function returned.      *)
(***************************************************************************)
\* arguments of rgbToHex, in 1/Den units: around 0, around 255, around 16,
\* and NaN
HexInputs ==
    ((0 - OutOfRange * Den)..(HexEdge * Den))
      \cup ((Full - HexEdge * Den)..(Full + OutOfRange * Den))
      \cup {15 * Den, 15 * Den + 1, 16 * Den, 127 * Den + 1, NaN}

HexInit ==
    /\ RouterInit
    /\ call \in [r : HexInputs, g : HexInputs, b : HexInputs]
    /\ ret = <<>>

CallRgbToHex ==
    /\ ret = <<>>
    /\ ret' = <<rgbToHex(call.r, call.g, call.b)>>
    /\ UNCHANGED <<readings, nextId, now, req, last, call, pool, isConnected, boot>>

HexNext == CallRgbToHex

SpecHex == HexInit /\ [][HexNext]_vars

\* integer channel values of rgbToHsl and rgbToHsv
ChanInputs ==
    {k * Den : k \in (0..ChanEdge) \cup ((255 - ChanEdge)..255)
                       \cup {j * ChanStride : j \in 0..(255 \div ChanStride)}}

ColorInit ==
    /\ RouterInit
    /\ call \in [r : ChanInputs, g : ChanInputs, b : ChanInputs]
    /\ ret = [hsl |-> <<>>, hsv |-> <<>>]

CallRgbToHsl ==
    /\ ret.hsl = <<>>
    /\ ret' = [ret EXCEPT !.hsl = <<rgbToHsl(call.r, call.g, call.b)>>]
    /\ UNCHANGED <<readings, nextId, now, req, last, call, pool, isConnected, boot>>

CallRgbToHsv ==
    /\ ret.hsv = <<>>
    /\ ret' = [ret EXCEPT !.hsv = <<rgbToHsv(call.r, call.g, call.b)>>]
    /\ UNCHANGED <<readings, nextId, now, req, last, call, pool, isConnected, boot>>

ColorNext == CallRgbToHsl \/ CallRgbToHsv

SpecColor == ColorInit /\ [][ColorNext]_vars

\* LAB triples in hundredths, around the ends of the nominal ranges
LabInputs ==
    [l : (0..LabNear) \cup ((10000 - LabNear)..10000),
     a : ((0 - 12800)..(LabNear - 12800)) \cup ((0 - LabNear)..LabNear)
           \cup ((12700 - LabNear)..12700),
     b : ((0 - LabNear)..LabNear) \cup {12700}]

DeltaEInit ==
    /\ RouterInit
    /\ call \in [lab1 : LabInputs, lab2 : LabInputs]
    /\ ret = [ab |-> <<>>, ba |-> <<>>]

CallDeltaE76 ==
    /\ ret.ab = <<>>
    /\ ret' = [ret EXCEPT !.ab = <<deltaE76(call.lab1, call.lab2)>>]
    /\ UNCHANGED <<readings, nextId, now, req, last, call, pool, isConnected, boot>>

CallDeltaE76Swapped ==
    /\ ret.ba = <<>>
    /\ ret' = [ret EXCEPT !.ba = <<deltaE76(call.lab2, call.lab1)>>]
    /\ UNCHANGED <<readings, nextId, now, req, last, call, pool, isConnected, boot>>

DeltaENext == CallDeltaE76 \/ CallDeltaE76Swapped

SpecDeltaE == DeltaEInit /\ [][DeltaENext]_vars

\* arguments of getDeltaEInterpretation, in thousandths: around 0 and the
\* five thresholds, and 0.5, 2.999 and 100
InterpInputs ==
    (0..InterpNear) \cup {500, 2999, 100000}
      \cup UNION {(t - InterpNear)..(t + InterpNear) :
                     t \in {1000, 2000, 3500, 5000, 10000}}

InterpInit ==
    /\ RouterInit
    /\ call \in [x : InterpInputs, y : InterpInputs]
    /\ ret = [x |-> <<>>, y |-> <<>>]

CallInterpretX ==
    /\ ret.x = <<>>
    /\ ret' = [ret EXCEPT !.x = <<getDeltaEInterpretation(call.x)>>]
    /\ UNCHANGED <<readings, nextId, now, req, last, call, pool, isConnected, boot>>

CallInterpretY ==
    /\ ret.y = <<>>
    /\ ret' = [ret EXCEPT !.y = <<getDeltaEInterpretation(call.y)>>]
    /\ UNCHANGED <<readings, nextId, now, req, last, call, pool, isConnected, boot>>

InterpNext == CallInterpretX \/ CallInterpretY

SpecInterp == InterpInit /\ [][InterpNext]_vars

\* arguments for the rounding of the outputs: RGB triples whose saturation
\* or hue lies half-way between two hundredths, XYZ triples (scale 0..1,
\* fixed point) among them {x: -0.2661316, y: 0.88, z: 0} of the code's
\* scale, whose a lies half-way between -45.17 and -45.16, and LAB pairs
RoundRgbInputs ==
    [r : {0, 64 * Den, 255 * Den}, g : {0, 5 * Den}, b : {96 * Den, 160 * Den}]
RoundXyzInputs ==
    [x : {0 - 2661316, 0, 118808750, 950470000},
     y : {0, 8800000, 149932862, One},
     z : {0, 1088830000}]
RoundLabInputs ==
    [lab1 : {[l |-> 0, a |-> 0, b |-> 0], [l |-> 5000, a |-> 0 - 1000, b |-> 2000]},
     lab2 : {[l |-> 0, a |-> 0, b |-> 1], [l |-> 10000, a |-> 12700, b |-> 0 - 12800]}]

RoundInit ==
    /\ RouterInit
    /\ call \in [rgb : RoundRgbInputs, xyz : RoundXyzInputs, labs : RoundLabInputs]
    /\ ret = [hsl |-> <<>>, hsv |-> <<>>, lab |-> <<>>, de |-> <<>>]

RoundCallHsl ==
    /\ ret.hsl = <<>>
    /\ ret' = [ret EXCEPT !.hsl = <<rgbToHsl(call.rgb.r, call.rgb.g, call.rgb.b)>>]
    /\ UNCHANGED <<readings, nextId, now, req, last, call, pool, isConnected, boot>>

RoundCallHsv ==
    /\ ret.hsv = <<>>
    /\ ret' = [ret EXCEPT !.hsv = <<rgbToHsv(call.rgb.r, call.rgb.g, call.rgb.b)>>]
    /\ UNCHANGED <<readings, nextId, now, req, last, call, pool, isConnected, boot>>

RoundCallXyzToLab ==
    /\ ret.lab = <<>>
    /\ ret' = [ret EXCEPT !.lab = <<xyzToLab(call.xyz)>>]
    /\ UNCHANGED <<readings, nextId, now, req, last, call, pool, isConnected, boot>>

RoundCallDeltaE76 ==
    /\ ret.de = <<>>
    /\ ret' = [ret EXCEPT !.de = <<deltaE76(call.labs.lab1, call.labs.lab2)>>]
    /\ UNCHANGED <<readings, nextId, now, req, last, call, pool, isConnected, boot>>

RoundNext ==
    \/ RoundCallHsl
    \/ RoundCallHsv
    \/ RoundCallXyzToLab
    \/ RoundCallDeltaE76

SpecRound == RoundInit /\ [][RoundNext]_vars

\* arguments of rgbToLab: 0, 255, and 10 and 11, the last value of the
\* linear branch of the gamma correction and the first of the power branch
LabRgbInputs ==
    [r : {0, 10 * Den, 11 * Den, Full},
     g : {0, 10 * Den, 11 * Den, Full},
     b : {0, 10 * Den, 11 * Den, Full}]

LabInit ==
    /\ RouterInit
    /\ call \in LabRgbInputs
    /\ ret = [xyz |-> <<>>, lab |-> <<>>]

\* rgbToLab, line 160
CallRgbToXyz ==
    /\ ret.xyz = <<>>
    /\ ret' = [ret EXCEPT !.xyz = <<rgbToXyz(call.r, call.g, call.b)>>]
    /\ UNCHANGED <<readings, nextId, now, req, last, call, pool, isConnected, boot>>

\* rgbToLab, line 161
CallXyzToLab ==
    /\ ret.xyz # <<>>
    /\ ret.lab = <<>>
    /\ ret' = [ret EXCEPT !.lab = <<xyzToLab(ret.xyz[1])>>]
    /\ UNCHANGED <<readings, nextId, now, req, last, call, pool, isConnected, boot>>

LabNext == CallRgbToXyz \/ CallXyzToLab

SpecLab == LabInit /\ [][LabNext]_vars

(***************************************************************************)
(* db/connection.ts and the start() of the server: the connection test      *)
(* with retry and the migrations that follow it.  start() makes the one     *)
(* call of ensureConnection of the program; the later calls are calls of    *)
(* the exported function, one at a time, with retries of their own.  Each   *)
(* action is one turn of the event loop: the code between two awaits.       *)
(***************************************************************************)

\* ensureConnection(10, 3000) in start()
StartRetries == 10

\* the retries of a later call, and the number of later calls
MaxRetries == 3

MaxCalls == 2

\* line 40, the condition of the for loop, too lenient by one
LoopContinues_OneMore(attempt, retries) == attempt <= retries + 1

\* line 40, the condition of the for loop
LoopContinues(attempt, retries) == attempt <= retries

\* line 40: the loop at the value attempt of its counter, which starts the
\* attempt of lines 42 and 43 or leaves the loop for the return of line 58
Iteration(b, attempt) ==
    IF LoopContinues(attempt, b.retries)
    THEN [b EXCEPT !.pc = "attempt", !.attempt = attempt]
    ELSE [b EXCEPT !.pc = "returned", !.attempt = attempt,
                   !.result = <<FALSE>>]

\* a call of ensureConnection up to its first await, lines 36 to 43: the
\* early return, the pool of getPool (which throws when DATABASE_URL is not
\* set and no pool exists), the first iteration
ensureConnection(caller, retries) ==
    LET b == [boot EXCEPT !.caller = caller, !.retries = retries,
                          !.attempt = 0, !.entry = isConnected,
                          !.attempts = 0, !.failed = 0,
                          !.succeeded = FALSE, !.result = <<>>]
    IN  /\ UNCHANGED isConnected
        /\ IF isConnected
           THEN /\ boot' = [b EXCEPT !.pc = "returned", !.result = <<TRUE>>]
                /\ UNCHANGED pool
           ELSE IF ~pool /\ ~boot.env
           THEN /\ boot' = [b EXCEPT !.pc = "threw"]
                /\ UNCHANGED pool
           ELSE /\ getPool
                /\ boot' = Iteration(b, 1)

RouterIdle == UNCHANGED <<readings, nextId, now, req, last, call, ret>>

\* start(), samples.ts lines 179 to 192
Start ==
    /\ boot.pc = "init"
    /\ IF boot.env
       THEN ensureConnection("start", StartRetries)
       ELSE /\ boot' = [boot EXCEPT !.pc = "done", !.caller = "start"]
            /\ UNCHANGED <<pool, isConnected>>
    /\ RouterIdle

\* a later call of the exported ensureConnection
DirectCall(retries) ==
    /\ boot.pc = "done"
    /\ boot.calls < MaxCalls
    /\ ensureConnection("direct", retries)
    /\ RouterIdle

\* lines 43 to 48: connect and SELECT 1 succeed; the assignment and the
\* return run in one turn, and so does the caller's continuation
AttemptSucceeds ==
    /\ boot.pc = "attempt"
    /\ isConnected' = TRUE
    /\ boot' = [boot EXCEPT !.pc = "returned",
                            !.attempts = boot.attempts + 1,
                            !.succeeded = TRUE, !.result = <<TRUE>>]
    /\ UNCHANGED pool
    /\ RouterIdle

\* lines 43 to 44 and 49 to 55: connect or SELECT 1 rejects; the delay is
\* awaited unless this was the last attempt
AttemptFails ==
    /\ boot.pc = "attempt"
    /\ LET b == [boot EXCEPT !.attempts = boot.attempts + 1,
                             !.failed = boot.failed + 1]
       IN  boot' = IF boot.attempt < boot.retries
                   THEN [b EXCEPT !.pc = "delay"]
                   ELSE Iteration(b, boot.attempt + 1)
    /\ UNCHANGED <<pool, isConnected>>
    /\ RouterIdle

\* line 53 has elapsed: the next iteration of the loop
DelayElapsed ==
    /\ boot.pc = "delay"
    /\ boot' = Iteration(boot, boot.attempt + 1)
    /\ UNCHANGED <<pool, isConnected>>
    /\ RouterIdle

\* start() after its await, samples.ts lines 193 to 201
StartContinue ==
    /\ boot.pc = "returned"
    /\ boot.caller = "start"
    /\ boot' = [boot EXCEPT !.pc = "done",
                            !.migrated = (boot.result = <<TRUE>>)]
    /\ UNCHANGED <<pool, isConnected>>
    /\ RouterIdle

\* a later call has returned or thrown
DirectReturn ==
    /\ boot.pc \in {"returned", "threw"}
    /\ boot.caller = "direct"
    /\ boot' = [boot EXCEPT !.pc = "done", !.calls = boot.calls + 1]
    /\ UNCHANGED <<pool, isConnected>>
    /\ RouterIdle

\* the 'error' event of the pool, lines 25 to 28: an event of its own turn,
\* so never between a return and the continuation of the caller
PoolError ==
    /\ pool
    /\ boot.pc # "returned"
    /\ isConnected' = FALSE
    /\ UNCHANGED <<pool, boot>>
    /\ RouterIdle

ConnInit ==
    /\ readings = {}
    /\ nextId = 1
    /\ now = 0
    /\ req = [p \in Procs |-> Idle]
    /\ last = NoResponse
    /\ call = <<>>
    /\ ret = <<>>
    /\ pool = FALSE
    /\ isConnected = FALSE
    /\ \E env \in BOOLEAN : boot = [NotStarted EXCEPT !.env = env]

ConnNext ==
    \/ Start
    \/ \E retries \in 0..MaxRetries : DirectCall(retries)
    \/ AttemptSucceeds
    \/ AttemptFails
    \/ DelayElapsed
    \/ StartContinue
    \/ DirectReturn
    \/ PoolError

\* every await of ensureConnection settles: connect has a timeout of ten
\* seconds (line 22), the delay is a timer, and the server is taken to
\* answer SELECT 1 or to drop the connection
SpecConn ==
    /\ ConnInit
    /\ [][ConnNext]_vars
    /\ WF_vars(AttemptSucceeds \/ AttemptFails)
    /\ WF_vars(DelayElapsed)

(***************************************************************************)
(* Properties.                                                             *)
(***************************************************************************)


\* C1: the read-previous-then-insert sequence of POST /api/readings is
\* serialized per device: two submissions for the same device that are both
\* between their SELECT and their INSERT never hold the same previous
\* reading (so the one inserted second is compared with the one inserted
\* first).
C1_ReadThenInsertSerialized ==
    \A p \in Procs : \A q \in Procs :
        (/\ p # q
         /\ req[p].pc = "insert"
         /\ req[q].pc = "insert"
         /\ req[p].body.device_id = req[q].body.device_id)
            => req[p].prevResult # req[q].prevResult

\* the readings of one device
OfDevice(rows, device_id) == {x \in rows : x.device_id = device_id}

\* C2: for every accepted POST the Delta E is null exactly when no reading
\* of the device exists at the lookup, and is otherwise deltaE76 of the new
\* reading's LAB and the LAB of a stored reading of the device with the
\* greatest timestamp; the row inserted stores that Delta E.
C2_DeltaEAgainstLatest ==
    [][\A p \in Procs :
        /\ (req[p].pc = "idle" /\ req'[p].pc = "insert") =>
              LET body == req'[p].body
                  mine == OfDevice(readings, body.device_id)
                  lab  == CurrentLabOf[<<body.r[1], body.g[1], body.b[1]>>]
              IN  /\ (req'[p].delta_e = <<>>) <=> (mine = {})
                  /\ mine # {} =>
                        \E x \in mine :
                           /\ \A y \in mine : y.timestamp <= x.timestamp
                           /\ req'[p].delta_e = <<deltaE76(lab, LabOfRow(x))>>
        /\ (req[p].pc = "insert" /\ req'[p].pc = "idle" /\ last'.status = 201) =>
              \E x \in readings' \ readings :
                 x.id = last'.id /\ x.delta_e = req[p].delta_e
      ]_vars

\* C2 witness: a reading was stored with a Delta E against an earlier
\* reading of another colour, and one with no Delta E
C2_Witness ==
    /\ last.status = 201
    /\ \E x \in readings : x.id = last.id /\ x.delta_e # <<>> /\ x.delta_e[1] > 0
    /\ \E x \in readings : x.delta_e = <<>>

\* what the claim calls a valid request: device_id present, r, g and b
\* present, integers, within [0, 255]
IntegerChannel(f) == f # <<>> /\ f[1] % Den = 0 /\ f[1] >= 0 /\ f[1] <= Full
WellFormed(body) ==
    /\ body.device_id # ""
    /\ IntegerChannel(body.r) /\ IntegerChannel(body.g) /\ IntegerChannel(body.b)

\* C3: only integer RGB triples within [0, 255] reach the core: a request
\* with a missing, non-integer or out-of-range channel (or no device_id) is
\* answered 400, getAllColorValues is not called for it and nothing is
\* inserted; a channel value 0 is accepted.
C3_OnlyIntegerRgbReachesCore ==
    /\ \A p \in Procs : req[p].pc = "insert" => WellFormed(req[p].body)
    /\ (last.route = "POST" /\ ~WellFormed(last.body)) =>
          (last.status = 400 /\ ~last.called /\ last.id = 0)
    /\ (last.route = "POST" /\ WellFormed(last.body)) => last.status = 201

UpperHexDigits == <<"0", "1", "2", "3", "4", "5", "6", "7",
                    "8", "9", "A", "B", "C", "D", "E", "F">>
IsUpperHexDigit(c) == \E k \in 1..16 : UpperHexDigits[k] = c
HexDigitValue(c) == (CHOOSE k \in 1..16 : UpperHexDigits[k] = c) - 1

\* the two characters hi, lo encode the channel v (in 1/Den units) rounded
\* to a nearest integer and clamped to [0, 255]
EncodesChannel(v, hi, lo) ==
    \E n \in {v \div Den, (v \div Den) + 1} :
        /\ 2 * Abs(n * Den - v) <= Den
        /\ 16 * HexDigitValue(hi) + HexDigitValue(lo) = Max2(0, Min2(255, n))

\* what C4 says of the string hex returned for the channels of call
HexEncodes(hex) ==
    /\ Len(hex) = 7
    /\ hex[1] = "#"
    /\ \A i \in 2..7 : IsUpperHexDigit(hex[i])
    /\ EncodesChannel(call.r, hex[2], hex[3])
    /\ EncodesChannel(call.g, hex[4], hex[5])
    /\ EncodesChannel(call.b, hex[6], hex[7])
    /\ (call.r = 0 /\ call.g = 0 /\ call.b = 0)
          => hex = <<"#", "0", "0", "0", "0", "0", "0">>
    /\ (call.r = Full /\ call.g = Full /\ call.b = Full)
          => hex = <<"#", "F", "F", "F", "F", "F", "F">>
    /\ (call.r = Full /\ call.g = 0 /\ call.b = 0)
          => hex = <<"#", "F", "F", "0", "0", "0", "0">>

\* C4 as stated: rgbToHex returns, for every r, g, b of type number (below 0
\* and above 255 too), a 7-character string # R R G G B B of upper-case
\* hexadecimal digits whose fields encode each channel rounded to the
\* nearest integer and clamped to [0, 255]; (0,0,0) gives #000000,
\* (255,255,255) #FFFFFF, (255,0,0) #FF0000.
C4_HexEncodingOfEveryNumber == ret # <<>> => HexEncodes(ret[1])

\* C4 amended: the same for every r, g, b none of which is NaN.
C4_HexEncoding ==
    (ret # <<>> /\ call.r # NaN /\ call.g # NaN /\ call.b # NaN)
        => HexEncodes(ret[1])

\* C4 witness: a call with a channel below 0, a channel above 255 and a
\* channel that is not an integer, none of them NaN, has returned
C4_Witness ==
    /\ ret # <<>>
    /\ call.r < 0 /\ call.r # NaN
    /\ call.g > Full
    /\ call.b % Den # 0 /\ call.b # NaN

\* C5: for r = g = b rgbToHsl returns h = 0, s = 0 and l = 100 r / 255
\* rounded to 2 decimals, and no input in [0,255]^3 makes it divide by zero
\* (every output is finite); (0,0,0) gives {0,0,0}, (255,255,255) {0,0,100}.
C5_Achromatic ==
    ret.hsl # <<>> =>
        LET o == ret.hsl[1]
        IN  /\ o.h # NaN /\ o.s # NaN /\ o.l # NaN
            /\ (call.r = call.g /\ call.g = call.b) =>
                  /\ o.h = 0
                  /\ o.s = 0
                  /\ 2 * Abs(o.l * Full - 10000 * call.r) <= Full
            /\ (call.r = 0 /\ call.g = 0 /\ call.b = 0)
                  => o = [h |-> 0, s |-> 0, l |-> 0]
            /\ (call.r = Full /\ call.g = Full /\ call.b = Full)
                  => o = [h |-> 0, s |-> 0, l |-> 10000]

\* C5 witness: rgbToHsl has returned for a grey that is neither black nor
\* white
C5_Witness ==
    /\ ret.hsl # <<>>
    /\ call.r = call.g /\ call.g = call.b
    /\ call.r > 0 /\ call.r < Full

\* C6: rgbToHsv returns saturation 0 when max(r,g,b) = 0 and otherwise
\* 100 (max - min) / max rounded to 2 decimals, and value 100 max / 255
\* rounded to 2 decimals; (0,0,0) gives {0,0,0}, (255,0,0) {0,100,100}.
C6_SaturationValue ==
    ret.hsv # <<>> =>
        LET o  == ret.hsv[1]
            mx == Max3(call.r, call.g, call.b)
            mn == Min3(call.r, call.g, call.b)
        IN  /\ mx = 0 => o.s = 0
            /\ mx > 0 => 2 * Abs(o.s * mx - 10000 * (mx - mn)) <= mx
            /\ 2 * Abs(o.v * Full - 10000 * mx) <= Full
            /\ (call.r = 0 /\ call.g = 0 /\ call.b = 0)
                  => o = [h |-> 0, s |-> 0, v |-> 0]
            /\ (call.r = Full /\ call.g = 0 /\ call.b = 0)
                  => o = [h |-> 0, s |-> 10000, v |-> 10000]

\* C6 witness: rgbToHsv has returned for black
C6_Witness ==
    /\ ret.hsv # <<>>
    /\ call.r = 0 /\ call.g = 0 /\ call.b = 0

InPercent(x) == 0 <= x /\ x <= 10000
InDegrees(x) == 0 <= x /\ x < 36000

\* C7: for every integer RGB triple the rounded outputs of rgbToHsl and
\* rgbToHsv are in range: 0 <= h < 360, and s, l, v within [0, 100].
C7_Ranges ==
    /\ ret.hsl # <<>> =>
          /\ InDegrees(ret.hsl[1].h)
          /\ InPercent(ret.hsl[1].s)
          /\ InPercent(ret.hsl[1].l)
    /\ ret.hsv # <<>> =>
          /\ InDegrees(ret.hsv[1].h)
          /\ InPercent(ret.hsv[1].s)
          /\ InPercent(ret.hsv[1].v)

\* C7 witness: both functions have returned for a red-max colour with g < b
\* whose hue is within a degree of 360
C7_Witness ==
    /\ ret.hsl # <<>> /\ ret.hsv # <<>>
    /\ call.r > call.b /\ call.b > call.g
    /\ ret.hsl[1].h > 35900

\* C8: whenever the saturation is not zero, rgbToHsl and rgbToHsv return
\* the same hue.
C8_SameHue ==
    (/\ ret.hsl # <<>>
     /\ ret.hsv # <<>>
     /\ (ret.hsl[1].s # 0 \/ ret.hsv[1].s # 0))
        => ret.hsl[1].h = ret.hsv[1].h

\* C8 witness: both functions have returned for a blue-max colour with a
\* non-zero saturation
C8_Witness ==
    /\ ret.hsl # <<>> /\ ret.hsv # <<>>
    /\ call.b > call.r /\ call.r > call.g
    /\ ret.hsl[1].s # 0 /\ ret.hsv[1].s # 0

\* C9: deltaE76(a, b) = deltaE76(b, a) for all LAB pairs, and the result is
\* never negative.
C9_Symmetric ==
    /\ (ret.ab # <<>> /\ ret.ba # <<>>) => ret.ab = ret.ba
    /\ ret.ab # <<>> => ret.ab[1] >= 0
    /\ ret.ba # <<>> => ret.ba[1] >= 0

\* C9 witness: both orders have returned for two triples that differ in
\* every component
C9_Witness ==
    /\ ret.ab # <<>> /\ ret.ba # <<>>
    /\ call.lab1.l # call.lab2.l
    /\ call.lab1.a # call.lab2.a
    /\ call.lab1.b # call.lab2.b

\* C10: for LAB triples rounded to 2 decimals deltaE76 is 0 exactly when the
\* two triples are identical, and at least 0.01 when they differ.
C10_ZeroIffIdentical ==
    ret.ab # <<>> =>
        /\ (ret.ab[1] = 0) <=> (call.lab1 = call.lab2)
        /\ call.lab1 # call.lab2 => ret.ab[1] >= 1

\* C10 witness: the call has returned for two triples that differ by 0.01
\* in one component only
C10_Witness ==
    /\ ret.ab # <<>>
    /\ call.lab1.l = call.lab2.l
    /\ call.lab1.a = call.lab2.a
    /\ Abs(call.lab1.b - call.lab2.b) = 1

\* the six bands of C11, in thousandths, lowest first; the last one has no
\* upper end
BandLabels == <<"Not perceptible by human eyes",
                "Perceptible through close observation",
                "Perceptible at a glance",
                "Pair colors more similar than different",
                "Pair colors more different than similar",
                "Completely different colors">>
BandLower == <<0, 1000, 2000, 3500, 5000, 10000>>
InBand(v, i) == BandLower[i] <= v /\ (i < 6 => v < BandLower[i + 1])
BandOfLabel(label) == CHOOSE i \in 1..6 : BandLabels[i] = label

\* C11: getDeltaEInterpretation maps every non-negative Delta E to the label
\* of the one band among [0,1), [1,2), [2,3.5), [3.5,5), [5,10), [10,inf)
\* that holds it (a threshold belongs to the upper band), the label never
\* goes down when the value goes up, and 0.5, 2.999, 3.5 and 100 get the
\* labels of bands 1, 3, 4 and 6.
C11_Bands ==
    /\ ret.x # <<>> =>
          /\ \E i \in 1..6 : ret.x[1] = BandLabels[i]
          /\ \A i \in 1..6 : InBand(call.x, i) <=> (ret.x[1] = BandLabels[i])
          /\ call.x = 500 => ret.x[1] = "Not perceptible by human eyes"
          /\ call.x = 2999 => ret.x[1] = "Perceptible at a glance"
          /\ call.x = 3500
                => ret.x[1] = "Pair colors more similar than different"
          /\ call.x = 100000 => ret.x[1] = "Completely different colors"
    /\ (ret.x # <<>> /\ ret.y # <<>> /\ call.x <= call.y)
          => BandOfLabel(ret.x[1]) <= BandOfLabel(ret.y[1])

\* C11 witness: the helper has returned for a threshold and for the value
\* just below it
C11_Witness ==
    /\ ret.x # <<>> /\ ret.y # <<>>
    /\ call.x = 3499 /\ call.y = 3500
    /\ ret.x[1] # ret.y[1]

\* n hundredths is a nearest hundredth of the unrounded value num / den
\* (den > 0, value in hundredths), and it lies half-way
Nearest(n, num, den) == 2 * Abs(n * den - num) <= den
HalfWay(n, num, den) == 2 * Abs(n * den - num) = den
\* ... with a half rounded away from zero
RoundedHalfAwayFromZero(n, num, den) ==
    Nearest(n, num, den) /\ (HalfWay(n, num, den) => Abs(n * den) > Abs(num))
\* ... with a half rounded towards plus infinity
RoundedHalfUp(n, num, den) ==
    Nearest(n, num, den) /\ (HalfWay(n, num, den) => n * den > num)

\* the unrounded outputs, in hundredths, as <<numerator, denominator>>:
\* h * 360 * 100 of lines 54 to 60 and 90 to 96
UnroundedHue(r, g, b) ==
    LET mx == Max3(r, g, b)
        d  == mx - Min3(r, g, b)
    IN  IF d = 0 THEN <<0, 1>>
        ELSE IF mx = r THEN <<6000 * ((g - b) + (IF g < b THEN 6 * d ELSE 0)), d>>
        ELSE IF mx = g THEN <<6000 * ((b - r) + 2 * d), d>>
        ELSE <<6000 * ((r - g) + 4 * d), d>>
\* s * 100 * 100 of line 50
UnroundedSaturationL(r, g, b) ==
    LET mx == Max3(r, g, b)
        mn == Min3(r, g, b)
    IN  IF mx = mn THEN <<0, 1>>
        ELSE IF mx + mn > Full THEN <<10000 * (mx - mn), 2 * Full - mx - mn>>
        ELSE <<10000 * (mx - mn), mx + mn>>
\* s * 100 * 100 of line 85
UnroundedSaturationV(r, g, b) ==
    LET mx == Max3(r, g, b)
    IN  IF mx = 0 THEN <<0, 1>> ELSE <<10000 * (mx - Min3(r, g, b)), mx>>
\* the x, y, z of lines 147 to 149
LabAxes(xyz) ==
    [x |-> labF(DivPow10(xyz.x, 5, 95047)),
     y |-> labF(xyz.y),
     z |-> labF(DivPow10(xyz.z, 5, 108883))]

\* what C12 says with "rounded" standing for the predicate Rounded(n, num,
\* den): every output returned is the rounded unrounded value
OutputsRounded(Rounded(_, _, _)) ==
    /\ ret.hsl # <<>> =>
          LET o == ret.hsl[1]
              c == call.rgb
              h == UnroundedHue(c.r, c.g, c.b)
              s == UnroundedSaturationL(c.r, c.g, c.b)
          IN  /\ Rounded(o.h, h[1], h[2])
              /\ Rounded(o.s, s[1], s[2])
              /\ Rounded(o.l, 10000 * (Max3(c.r, c.g, c.b) + Min3(c.r, c.g, c.b)),
                         2 * Full)
    /\ ret.hsv # <<>> =>
          LET o == ret.hsv[1]
              c == call.rgb
              h == UnroundedHue(c.r, c.g, c.b)
              s == UnroundedSaturationV(c.r, c.g, c.b)
          IN  /\ Rounded(o.h, h[1], h[2])
              /\ Rounded(o.s, s[1], s[2])
              /\ Rounded(o.v, 10000 * Max3(c.r, c.g, c.b), Full)
    /\ ret.lab # <<>> =>
          LET o == ret.lab[1]
              f == LabAxes(call.xyz)
              \* (116 y - 16) * 100 = 29 y / 2500000 - 1600 with y = q * 2500000 + m
              q == f.y \div 2500000
              m == f.y % 2500000
          IN  /\ Rounded(o.l + 1600 - 29 * q, 29 * m, 2500000)
              /\ Rounded(o.a, f.x - f.y, 20000)
              /\ Rounded(o.b, f.y - f.z, 50000)
    /\ ret.de # <<>> =>
          \* the root of an integer is never half-way: n is the integer nearest
          \* to the root of sum when (n - 1/2)^2 < sum < (n + 1/2)^2
          LET n   == ret.de[1]
              l1  == call.labs.lab1
              l2  == call.labs.lab2
              sum == (l1.l - l2.l) * (l1.l - l2.l) + (l1.a - l2.a) * (l1.a - l2.a)
                       + (l1.b - l2.b) * (l1.b - l2.b)
          IN  n >= 0 /\ n * n - n < sum /\ sum <= n * n + n

C13_Poles ==
    ret.lab # <<>> =>
        LET o   == ret.lab[1]
            xyz == ret.xyz[1]
        IN  /\ (call.r = Full /\ call.g = Full /\ call.b = Full) =>
                  /\ Abs(o.l - 10000) <= 1
                  /\ Abs(o.a) <= 1
                  /\ Abs(o.b) <= 1
            /\ (call.r = 0 /\ call.g = 0 /\ call.b = 0) =>
                  /\ Abs(o.l) <= 1
                  /\ Abs(o.a) <= 1
                  /\ Abs(o.b) <= 1
                  /\ DivPow10(xyz.x, 5, 95047) <= Dec(8856, 6)
                  /\ xyz.y <= Dec(8856, 6)
                  /\ DivPow10(xyz.z, 5, 108883) <= Dec(8856, 6)
            /\ o = rgbToLab(call.r, call.g, call.b)

\* C13 witness: rgbToLab has returned for white, through the cube root on
\* all three axes
C13_Witness ==
    /\ ret.lab # <<>>
    /\ call.r = Full /\ call.g = Full /\ call.b = Full
    /\ ret.xyz[1].y > Dec(8856, 6)
    /\ ret.lab[1].l > 9000

\* the derived fields of the stored reading x are those of its own r, g, b
DerivedFromOwnRgb(x) ==
    LET cv  == ColorValuesOf[<<x.r, x.g, x.b>>]    \* getAllColorValues(r, g, b)
        lab == CurrentLabOf[<<x.r, x.g, x.b>>]     \* rgbToLab(r, g, b)
    IN  /\ x.hex = cv.hex
        /\ x.hue = cv.hue
        /\ x.saturation_l = cv.saturation_l
        /\ x.lightness = cv.lightness
        /\ x.saturation_v = cv.saturation_v
        /\ x.value = cv.value
        /\ x.lab_l = cv.lab_l /\ x.lab_a = cv.lab_a /\ x.lab_b = cv.lab_b
        /\ LabOfRow(x) = lab

\* C14: after any sequence of create, delete, list and compare requests the
\* derived fields of every stored reading equal getAllColorValues of its
\* stored r, g, b, its LAB fields equal rgbToLab of them, and no request
\* changes a field of a stored reading: a reading is either kept as it is
\* or deleted.
C14_DerivedFieldsPure ==
    /\ [](\A x \in readings : DerivedFromOwnRgb(x))
    /\ [][\A x \in readings : \A y \in readings' : y.id = x.id => y = x]_vars

\* C14 witness: a reading was deleted, two readings of different colours
\* are stored and a compare request on them has just been answered
C14_Witness ==
    /\ Cardinality(readings) = 2
    /\ nextId > 3
    /\ last.route = "COMPARE"
    /\ last.status = 200
    /\ last.delta_e > 0

\* both ids of the compare request answered last have a stored reading
BothStored == \A i \in {last.id, last.id2} : \E x \in readings : x.id = i

\* C15: GET /api/readings/compare/:id1/:id2 answers 404 exactly when one of
\* the two ids has no stored reading; when both have one, id1 = id2
\* included, it answers with deltaE76 of the stored LAB values of the two
\* readings and the interpretation of that value; it changes no stored
\* reading.
C15_CompareAnswers ==
    last.route = "COMPARE" =>
        /\ last.status \in {200, 404}
        /\ (last.status = 404) <=> ~BothStored
        /\ BothStored =>
              LET reading1 == CHOOSE x \in readings : x.id = last.id
                  reading2 == CHOOSE x \in readings : x.id = last.id2
                  delta_e  == deltaE76(LabOfRow(reading1), LabOfRow(reading2))
              IN  /\ last.delta_e = delta_e
                  /\ last.interpretation = getDeltaEInterpretation(10 * delta_e)

\* the state of a call of ensureConnection that has returned
ReturnedAsClaimed ==
    /\ boot.result \in {<<TRUE>>, <<FALSE>>}
    /\ boot.attempts <= boot.retries
    /\ boot.result = <<TRUE>> <=>
           \/ boot.entry /\ boot.attempts = 0
           \/ boot.succeeded
    /\ boot.entry => boot.attempts = 0
    /\ boot.succeeded => boot.attempts = boot.failed + 1
    /\ boot.result = <<TRUE>> => isConnected
    /\ boot.result = <<FALSE>> =>
           /\ ~isConnected
           /\ boot.failed = boot.retries
           /\ boot.attempts = boot.retries

\* C16: a call of ensureConnection(retries, delay) ends after at most
\* retries attempts; it returns true exactly when isConnected was true on
\* entry (no attempt made) or an attempt succeeded (the last one made, with
\* isConnected true on return); once retries attempts have failed it has
\* returned false with isConnected false; and start() calls runMigrations
\* only after its ensureConnection returned true.
C16_EnsureConnection ==
    /\ [](boot.attempts <= boot.retries)
    /\ [](boot.pc = "returned" => ReturnedAsClaimed)
    /\ [](boot.pc \in {"attempt", "delay", "returned"} /\ ~boot.entry
              /\ boot.failed = boot.retries
          => boot.pc = "returned" /\ boot.result = <<FALSE>>)
    /\ [][boot'.migrated /\ ~boot.migrated
          => /\ boot.pc = "returned"
             /\ boot.caller = "start"
             /\ boot.result = <<TRUE>>]_vars
    /\ (boot.pc \in {"attempt", "delay"}) ~> (boot.pc = "returned")

\* start() connected and ran the migrations, the pool then reported an
\* error, and a later call with more than one retry failed every attempt
C16_Witness ==
    /\ boot.pc = "returned"
    /\ boot.caller = "direct"
    /\ boot.migrated
    /\ boot.retries > 1
    /\ boot.failed = boot.retries
    /\ boot.result = <<FALSE>>

=============================================================================
